---- MODULE Spec2Model ----
(***************************************************************************)
(* Indicator computations of yhfinance/analytics/indicators.py, the job    *)
(* generation of yhfinance/databackup/job_generator.py with the JobSetup   *)
(* of yhfinance/const/databackup/jobs.py, DataContainer.dump of            *)
(* databackup/data_container.py and the panel numbers of                   *)
(* yhfinance/analytics/plotter.py.                                         *)
(*                                                                         *)
(* A pandas/numpy float is modelled as an exact rational, NaN or a signed  *)
(* infinity: [k |-> "num" | "nan" | "inf", n |-> numerator, d |-> denom].  *)
(* Rounding and the sign of zero are not modelled.  A column is a sequence *)
(* of such values; row index i of the source (0-based) is position i + 1.  *)
(***************************************************************************)
EXTENDS Integers, Sequences, FiniteSets, TLC

\* Bounds of the explored inputs.
NRows == 4
MaxPrice == 2
MaxPeriod == 2
MaxMult == 1
MaxTick == 2
MaxVersion == 1
MaxColumns == 6
MaxTime == 3
MaxFreq == 3
MaxConds == 2
MaxLog == 2
MaxTasks == 2
MaxCalls == 2
MaxArg == 2
MaxPairs == 1
MaxErrors == 1
MaxPanelArg == 2

VARIABLES
    highs, lows, closes,        \* the OHLC columns of the input frame (self.df)
    ticks,                      \* the tick-key column of the container (self._df)
    columns,                    \* the derived columns of the container, in order
    df,                         \* the frame handed to the last _add_result_safely
    pc,                         \* position of the indicator computation
    period, multi_up, multi_dn, \* self.period, self._multi_up, self._multi_dn
    idx,                        \* loop index of the running row-by-row loop
    tr, atr,                    \* True Range and Average True Range columns
    base_ups, base_dns,         \* Supertrend raw boundaries
    final_ups, final_dns,       \* Supertrend adjusted boundaries
    modes, supertrend,          \* Supertrend mode column and published column
    rsi_type,                   \* which RSI variant was computed
    ewm_ups, ewm_dns,           \* self.ewm_ups, self.ewm_dns (average gain, loss)
    rs, rsi,                    \* the RS and RSI columns
    min_heap, max_heap,         \* Aroon heaps of (low, row) and (-high, row)
    aroon_ups, aroon_dns,       \* Aroon Up and Aroon Down columns
    run_log,                    \* the rows of the run-log table, in insertion order
    run_datetime,               \* JobGenerator.run_datetime
    ticker_configs,             \* JobGenerator.ticker_configs
    _jobs, _created,            \* JobGenerator._jobs, JobGenerator._created
    _new_jobs,                  \* the list create_jobs builds for one ticker config
    cfg_i, task_i,              \* position of create_jobs in the configs and tasks
    job,                        \* the JobSetup under construction or last constructed
    calls,                      \* number of create_jobs runs started
    checked,                    \* the last _is_valid_task call and its result
    container,                  \* DataContainer: per data kind None or its frames
    dump_i, pair_i,             \* position of dump in the kinds and in the pairs
    npairs,                     \* len(self._df_for_db_list) of the kind being dumped
    attempted,                  \* the (kind, pair) writes attempted so far, in order
    failed,                     \* the attempts whose write raised a database error
    main_panel, volume_panel,   \* OHLCMpfPlotter.main_panel, .volume_panel
    volume,                     \* OHLCMpfPlotter.volume
    _taken_panel_nums           \* OHLCMpfPlotter._taken_panel_nums

stVars == <<multi_up, multi_dn, base_ups, base_dns, final_ups, final_dns, modes,
            supertrend>>

rsiVars == <<rsi_type, ewm_ups, ewm_dns, rs, rsi>>

aroonVars == <<min_heap, max_heap, aroon_ups, aroon_dns>>

jobVars == <<run_log, run_datetime, ticker_configs, _jobs, _created, _new_jobs,
             cfg_i, task_i, job, calls, checked>>

dumpVars == <<container, dump_i, pair_i, npairs, attempted, failed>>

plotVars == <<main_panel, volume_panel, volume, _taken_panel_nums>>

\* The state of the objects that no indicator touches.
extVars == <<jobVars, dumpVars, plotVars>>

\* The series container and the frame of its last merge, together with the
\* state no indicator touches.
frame == <<highs, lows, closes, ticks, columns, df, extVars>>

\* The state of the indicator computations.
indVars == <<highs, lows, closes, ticks, columns, df, period, idx, tr, atr,
             stVars, rsiVars, aroonVars>>

vars == <<highs, lows, closes, ticks, columns, df, pc, period, idx, tr, atr, stVars, rsiVars, aroonVars, extVars>>

----------------------------------------------------------------------------
\* Float values and arithmetic.

Abs(n) == IF n < 0 THEN -n ELSE n

RECURSIVE GCD(_, _)
GCD(a, b) == IF b = 0 THEN a ELSE GCD(b, a % b)

\* The rational n/d (d # 0) in lowest terms with a positive denominator.
Num(n, d) ==
    LET s == IF d < 0 THEN -1 ELSE 1
        g == GCD(Abs(n), Abs(d))
    IN  [k |-> "num", n |-> (s * n) \div g, d |-> (s * d) \div g]

FromInt(i) == [k |-> "num", n |-> i, d |-> 1]

NaN == [k |-> "nan", n |-> 0, d |-> 1]

Inf(s) == [k |-> "inf", n |-> s, d |-> 1]

IsNaN(a) == a.k = "nan"

Sign(a) == IF a.n > 0 THEN 1 ELSE IF a.n < 0 THEN -1 ELSE 0

FNeg(a) == IF IsNaN(a) THEN NaN ELSE [a EXCEPT !.n = -a.n]

FAbs(a) == IF IsNaN(a) THEN NaN ELSE [a EXCEPT !.n = Abs(a.n)]

FAdd(a, b) ==
    IF IsNaN(a) \/ IsNaN(b) THEN NaN
    ELSE IF a.k = "inf" THEN (IF b.k = "inf" /\ b.n # a.n THEN NaN ELSE a)
    ELSE IF b.k = "inf" THEN b
    ELSE Num(a.n * b.d + b.n * a.d, a.d * b.d)

FSub(a, b) == FAdd(a, FNeg(b))

FMul(a, b) ==
    IF IsNaN(a) \/ IsNaN(b) THEN NaN
    ELSE IF a.k = "inf" \/ b.k = "inf"
         THEN (IF Sign(a) * Sign(b) = 0 THEN NaN ELSE Inf(Sign(a) * Sign(b)))
    ELSE Num(a.n * b.n, a.d * b.d)

\* numpy float division: x/0 is an infinity, 0/0 is NaN, nothing is raised.
FDiv(a, b) ==
    IF IsNaN(a) \/ IsNaN(b) THEN NaN
    ELSE IF b.k = "inf" THEN (IF a.k = "inf" THEN NaN ELSE FromInt(0))
    ELSE IF a.k = "inf" THEN Inf(IF Sign(b) < 0 THEN -a.n ELSE a.n)
    ELSE IF b.n = 0 THEN (IF a.n = 0 THEN NaN ELSE Inf(Sign(a)))
    ELSE Num(a.n * b.d, a.d * b.n)

\* a < b; every comparison with NaN is false.
FLt(a, b) ==
    IF IsNaN(a) \/ IsNaN(b) THEN FALSE
    ELSE IF a.k = "inf" THEN a.n < 0 /\ ~(b.k = "inf" /\ b.n < 0)
    ELSE IF b.k = "inf" THEN b.n > 0
    ELSE a.n * b.d < b.n * a.d

FGt(a, b) == FLt(b, a)

FLe(a, b) == ~IsNaN(a) /\ ~IsNaN(b) /\ ~FLt(b, a)

\* Python's built-in min(a, b) and max(a, b): a unless b compares beyond it.
PyMin(a, b) == IF FLt(b, a) THEN b ELSE a

PyMax(a, b) == IF FGt(b, a) THEN b ELSE a

\* Row i (0-based, as in the source) of a column.
At(s, i) == s[i + 1]

Put(s, i, v) == [s EXCEPT ![i + 1] = v]

\* A column given row by row, as a sequence.
Column(f) == SubSeq(f, 1, Cardinality(DOMAIN f))

\* np.full((n,), np.nan) and [np.nan] * n
FullNaN(n) == Column([i \in 1..n |-> NaN])

----------------------------------------------------------------------------
\* Input frames.

Prices == 0..MaxPrice

OHLCRow == {r \in [h : Prices, l : Prices, c : Prices] : r.l <= r.c /\ r.c <= r.h}

Periods == 1..MaxPeriod

\* multiplier_dn = None
None == -1

Multipliers == 0..MaxMult

----------------------------------------------------------------------------
\* pandas primitives.

\* Column shifted by one row: row t holds the value of row t-1, row 0 none.
Shift1(s) == IF Len(s) = 0 THEN <<>> ELSE <<NaN>> \o SubSeq(s, 1, Len(s) - 1)

\* max over two cells of a row with skipna=True
SkipNaMax(a, b) ==
    IF IsNaN(a) THEN b ELSE IF IsNaN(b) THEN a ELSE IF FLt(a, b) THEN b ELSE a

RECURSIVE SumSkipNa(_)
SumSkipNa(s) ==
    IF Len(s) = 0 THEN FromInt(0)
    ELSE IF IsNaN(Head(s)) THEN SumSkipNa(Tail(s))
    ELSE FAdd(Head(s), SumSkipNa(Tail(s)))

CountValid(s) == Cardinality({t \in 1..Len(s) : ~IsNaN(s[t])})

\* Series.mean(): the mean of the values that are not NaN, NaN when none is.
SeriesMean(s) ==
    IF CountValid(s) = 0 THEN NaN
    ELSE FDiv(SumSkipNa(s), FromInt(CountValid(s)))

\* x.iloc[n] = x.iloc[:n].mean(); x.iloc[:n] = pd.NA   (n < len(x))
WilderSeed(x, n) ==
    LET seed == SeriesMean(SubSeq(x, 1, n))
    IN  Column([t \in 1..Len(x) |->
                   IF t <= n THEN NaN ELSE IF t = n + 1 THEN seed ELSE x[t]])

\* x.ewm(alpha=alpha, adjust=False).mean(): the first value that is not NaN
\* starts the average, y[t] = (1 - alpha) y[t-1] + alpha x[t] afterwards, and a
\* NaN input repeats the previous average.
RECURSIVE EwmPrefix(_, _, _)
EwmPrefix(x, alpha, t) ==
    IF t = 0 THEN <<>>
    ELSE LET prev == EwmPrefix(x, alpha, t - 1)
             last == IF t = 1 THEN NaN ELSE prev[t - 1]
             y    == IF IsNaN(x[t]) THEN last
                     ELSE IF IsNaN(last) THEN x[t]
                     ELSE FAdd(FMul(FSub(FromInt(1), alpha), last), FMul(alpha, x[t]))
         IN  Append(prev, y)

EwmMean(x, alpha) == EwmPrefix(x, alpha, Len(x))

\* RollingMean with min_periods=1: the mean of whatever values the window holds.
RollingMean_MinPeriods1(x, n) ==
    Column([t \in 1..Len(x) |->
               SeriesMean(SubSeq(x, IF t - n + 1 < 1 THEN 1 ELSE t - n + 1, t))])

\* x.rolling(n).mean(): min_periods is n, so a window that is shorter than n
\* rows or holds a NaN gives NaN.
RollingMean(x, n) ==
    Column([t \in 1..Len(x) |->
               IF t < n THEN NaN
               ELSE LET w == SubSeq(x, t - n + 1, t)
                    IN  IF CountValid(w) < n THEN NaN
                        ELSE FDiv(SumSkipNa(w), FromInt(n))])

----------------------------------------------------------------------------
\* True Range and Average True Range.

\* TR = max[(H-L), abs(H-Cp), abs(L-Cp)], the row maximum skipping NaN
IndTrueRange_calc(H, L, C) ==
    LET sft == Shift1(C)
    IN  Column([t \in 1..Len(H) |->
                   SkipNaMax(SkipNaMax(FSub(H[t], L[t]), FAbs(FSub(H[t], sft[t]))),
                             FAbs(FSub(L[t], sft[t])))])

\* The fault of the Wilder seeding and smoothing of a series of n rows with
\* period p, "none" when there is none: x.iloc[p] = ... raises IndexError when
\* row p does not exist, alpha = 1 / p raises ZeroDivisionError, and
\* ewm(alpha=alpha) raises ValueError unless 0 < alpha <= 1.
WilderFault(p, n) ==
    IF p >= n \/ p < -n THEN "IndexError"
    ELSE IF p = 0 THEN "ZeroDivisionError"
    ELSE IF p < 0 THEN "ValueError"
    ELSE "none"

\* The smoothing with the span weight 2/(p+1) in place of Wilder's 1/p.
IndAvgTrueRange_calc_Span(TR, p) == EwmMean(WilderSeed(TR, p), Num(2, p + 1))

\* _tr.iloc[period] = _tr.iloc[:period].mean(); _tr.iloc[:period] = pd.NA;
\* _tr.ewm(alpha=1/period, ignore_na=True, adjust=False).mean()
IndAvgTrueRange_calc(TR, p) == EwmMean(WilderSeed(TR, p), Num(1, p))

----------------------------------------------------------------------------
\* Supertrend.

Half == Num(1, 2)

BaseUps(H, L, ATR, m) ==
    Column([t \in 1..Len(H) |->
               FAdd(FMul(Half, FAdd(H[t], L[t])), FMul(FromInt(m), ATR[t]))])

BaseDns(H, L, ATR, m) ==
    Column([t \in 1..Len(H) |->
               FSub(FMul(Half, FAdd(H[t], L[t])), FMul(FromInt(m), ATR[t]))])

\* self._multi_dn = multiplier_dn or self._multi_up
MultiDn(multiplier, multiplier_dn) ==
    IF multiplier_dn = None \/ multiplier_dn = 0 THEN multiplier ELSE multiplier_dn

\* Mode values: 1 for showing support, 0 for showing resistance.
ModeSupport == FromInt(1)

ModeResistance == FromInt(0)

\* NextFinalUp without the ratchet: the raw boundary is always taken.
NextFinalUp_NoRatchet(i) == At(base_ups, i)

\* The final upper boundary of row i from row i-1.
NextFinalUp(i) ==
    IF FGt(At(closes, i - 1), At(final_ups, i - 1))
    THEN At(base_ups, i)
    ELSE PyMin(At(base_ups, i), At(final_ups, i - 1))

\* The final lower boundary of row i from row i-1.
NextFinalDn(i) ==
    IF FLt(At(closes, i - 1), At(final_dns, i - 1))
    THEN At(base_dns, i)
    ELSE PyMax(At(base_dns, i), At(final_dns, i - 1))

\* NextMode with the two breach tests in the other order.
NextMode_ResistanceFirst(i, fu, fd) ==
    IF FGt(At(closes, i), fu) THEN ModeSupport
    ELSE IF FLt(At(closes, i), fd) THEN ModeResistance
    ELSE At(modes, i - 1)

\* NextMode keeping the mode of the row being written instead of the previous row's.
NextMode_KeepOwnRow(i, fu, fd) ==
    IF FLt(At(closes, i), fd) THEN ModeResistance
    ELSE IF FGt(At(closes, i), fu) THEN ModeSupport
    ELSE At(modes, i)

\* The mode of row i given its final boundaries.
NextMode(i, fu, fd) ==
    IF FLt(At(closes, i), fd) THEN ModeResistance
    ELSE IF FGt(At(closes, i), fu) THEN ModeSupport
    ELSE At(modes, i - 1)

\* Published with the two boundaries exchanged.
Published_Swapped(mode, fu, fd) == IF mode = ModeSupport THEN fu ELSE fd

\* supertrend[idx] = final_dns[idx] if modes[idx] == 1 else final_ups[idx]
Published(mode, fu, fd) == IF mode = ModeSupport THEN fd ELSE fu

\* IndSupertrend._calc up to the seed row of _adjust_base_boundary_for_supertrend.
Supertrend_seed(p, multiplier, multiplier_dn) ==
    /\ pc = "idle"
    /\ IF WilderFault(p, Len(closes)) # "none"
       THEN \* IndAvgTrueRange._calc raises
            /\ pc' = WilderFault(p, Len(closes))
            /\ period' = p
            /\ UNCHANGED <<idx, tr, atr, stVars>>
       ELSE LET n   == Len(closes)
                TR  == IndTrueRange_calc(highs, lows, closes)
                ATR == IndAvgTrueRange_calc(TR, p)
                mdn == MultiDn(multiplier, multiplier_dn)
                bu  == BaseUps(highs, lows, ATR, multiplier)
                bd  == BaseDns(highs, lows, ATR, mdn)
            IN  /\ period' = p
                /\ multi_up' = multiplier
                /\ multi_dn' = mdn
                /\ tr' = TR
                /\ atr' = ATR
                /\ base_ups' = bu
                /\ base_dns' = bd
                /\ final_ups' = Put(FullNaN(n), p, At(bu, p))
                /\ final_dns' = Put(FullNaN(n), p, At(bd, p))
                /\ supertrend' = Put(FullNaN(n), p, At(bu, p))
                /\ modes' = Put(FullNaN(n), p, ModeSupport)
                /\ idx' = p + 1
                /\ pc' = "st_loop"
    /\ UNCHANGED <<frame, rsiVars, aroonVars>>

\* One iteration of the loop over range(period+1, len(_df)).
Supertrend_step ==
    /\ pc = "st_loop"
    /\ idx < Len(closes)
    /\ LET fu == NextFinalUp(idx)
           fd == NextFinalDn(idx)
           md == NextMode(idx, fu, fd)
       IN  /\ final_ups' = Put(final_ups, idx, fu)
           /\ final_dns' = Put(final_dns, idx, fd)
           /\ modes' = Put(modes, idx, md)
           /\ supertrend' = Put(supertrend, idx, Published(md, fu, fd))
    /\ idx' = idx + 1
    /\ UNCHANGED <<frame, pc, period, multi_up, multi_dn, tr, atr, base_ups,
                   base_dns, rsiVars, aroonVars>>

\* The loop is exhausted: supertrend and modes are returned and merged.
Supertrend_return ==
    /\ pc = "st_loop"
    /\ idx >= Len(closes)
    /\ pc' = "st_done"
    /\ UNCHANGED <<frame, period, idx, tr, atr, stVars, rsiVars, aroonVars>>

----------------------------------------------------------------------------
\* RSI family and Average True Range as indicators of their own.

Zero == FromInt(0)

One == FromInt(1)

Hundred == FromInt(100)

\* OHLCInterProcessor(df, tick_offset=-1).add_close_return(): the close minus
\* the previous row's close, undefined at row 0.
CloseReturnGL(C) ==
    LET sft == Shift1(C) IN Column([t \in 1..Len(C) |-> FSub(C[t], sft[t])])

\* Ups without the clipping at zero.
Ups_NoClip(gl) == gl

\* ups = gl.apply(lambda x: max(x, 0))
Ups(gl) == Column([t \in 1..Len(gl) |-> PyMax(gl[t], Zero)])

\* dns = gl.apply(lambda x: -min(x, 0))
Dns(gl) == Column([t \in 1..Len(gl) |-> FNeg(PyMin(gl[t], Zero))])

\* self.ewm_ups / self.ewm_dns
RSOf(g, l) == FDiv(g, l)

\* 100 - (100 / (1 + self.ewm_ups / self.ewm_dns))
RSIOf(g, l) == FSub(Hundred, FDiv(Hundred, FAdd(One, FDiv(g, l))))

\* _IndRSI._assign_rsi_result for the averages eu, ed of variant kind.
AssignRsiResult(kind, p, eu, ed) ==
    /\ rsi_type' = kind
    /\ period' = p
    /\ ewm_ups' = eu
    /\ ewm_dns' = ed
    /\ rs' = Column([t \in 1..Len(eu) |-> RSOf(eu[t], ed[t])])
    /\ rsi' = Column([t \in 1..Len(eu) |-> RSIOf(eu[t], ed[t])])
    /\ pc' = "rsi_done"
    /\ UNCHANGED <<frame, idx, tr, atr, stVars, aroonVars>>

IndWilderRSI_calc(p) ==
    /\ pc = "idle"
    /\ IF WilderFault(p, Len(closes)) # "none"
       THEN /\ pc' = WilderFault(p, Len(closes))
            /\ period' = p
            /\ UNCHANGED <<frame, idx, tr, atr, stVars, rsiVars, aroonVars>>
       ELSE LET gl  == CloseReturnGL(closes)
                ups == WilderSeed(Ups(gl), p)
                dns == WilderSeed(Dns(gl), p)
            IN  AssignRsiResult("Wilder", p, EwmMean(ups, Num(1, p)),
                                EwmMean(dns, Num(1, p)))

IndEmaRSI_calc(p) ==
    /\ pc = "idle"
    /\ LET gl == CloseReturnGL(closes)
       IN  AssignRsiResult("Ema", p, EwmMean(Ups(gl), Num(1, p)),
                           EwmMean(Dns(gl), Num(1, p)))

IndCutlerRSI_calc(p) ==
    /\ pc = "idle"
    /\ LET gl == CloseReturnGL(closes)
       IN  AssignRsiResult("Cutler", p, RollingMean(Ups(gl), p),
                           RollingMean(Dns(gl), p))

\* IndAvgTrueRange(df, tick_col, period): the True Range and ATR columns.
IndAvgTrueRange_init(p) ==
    /\ pc = "idle"
    /\ IF WilderFault(p, Len(closes)) # "none"
       THEN /\ pc' = WilderFault(p, Len(closes))
            /\ period' = p
            /\ UNCHANGED <<tr, atr>>
       ELSE LET TR == IndTrueRange_calc(highs, lows, closes)
            IN  /\ period' = p
                /\ tr' = TR
                /\ atr' = IndAvgTrueRange_calc(TR, p)
                /\ pc' = "atr_done"
    /\ UNCHANGED <<frame, idx, stVars, rsiVars, aroonVars>>

----------------------------------------------------------------------------
\* Aroon.  A heap is the set of its (value, row) entries; heap[0] is the least
\* entry in Python's tuple order, which is all the loop reads of a heap.

\* Tuple order that breaks a tie on the value towards the newer row.
TupleLt_NewestFirst(a, b) == FLt(a[1], b[1]) \/ (a[1] = b[1] /\ a[2] > b[2])

\* Python's order on (value, row) tuples.
TupleLt(a, b) == FLt(a[1], b[1]) \/ (a[1] = b[1] /\ a[2] < b[2])

\* heap[0]
HeapTop(heap) == CHOOSE e \in heap : \A f \in heap : e = f \/ TupleLt(e, f)

\* heapq.heappush(heap, item)
HeapPush(heap, item) == heap \cup {item}

\* heapq.heappop(heap)
HeapPop(heap) == heap \ {HeapTop(heap)}

\* __clean_heap that removes nothing.
CleanHeap_NoClean(heap, min_index) == heap

\* __clean_heap with `if` in place of `while`: at most one entry is removed.
CleanHeap_PopOnce(heap, min_index) ==
    IF heap # {} /\ HeapTop(heap)[2] < min_index THEN HeapPop(heap) ELSE heap

\* while heap and heap[0][1] < min_index: heapq.heappop(heap)
RECURSIVE CleanHeap(_, _)
CleanHeap(heap, min_index) ==
    IF heap # {} /\ HeapTop(heap)[2] < min_index
    THEN CleanHeap(HeapPop(heap), min_index)
    ELSE heap

\* (self.period - (i - ext_idx)) / (self.period) * 100
AroonValue(p, i, ext_idx) == FMul(FDiv(FromInt(p - (i - ext_idx)), FromInt(p)), Hundred)

\* IndAroon._calc up to the end of the first loop, which pushes rows 0..period-1.
Aroon_fill(p) ==
    /\ pc = "idle"
    /\ IF p > Len(highs)
       THEN \* lows[i] raises IndexError
            /\ pc' = "IndexError"
            /\ period' = p
            /\ UNCHANGED <<idx, aroonVars>>
       ELSE /\ period' = p
            /\ aroon_ups' = FullNaN(Len(highs))
            /\ aroon_dns' = FullNaN(Len(highs))
            /\ min_heap' = {<<At(lows, i), i>> : i \in 0..(p - 1)}
            /\ max_heap' = {<<FNeg(At(highs, i)), i>> : i \in 0..(p - 1)}
            /\ idx' = p
            /\ pc' = "aroon_loop"
    /\ UNCHANGED <<frame, tr, atr, stVars, rsiVars>>

\* One iteration of the loop over range(self.period, len(_df)).
Aroon_step ==
    /\ pc = "aroon_loop"
    /\ idx < Len(highs)
    /\ LET mins == CleanHeap(min_heap, idx - period)
           maxs == CleanHeap(max_heap, idx - period)
       IN  IF mins = {} \/ maxs = {}
           THEN \* min_heap[0] raises IndexError
                /\ pc' = "IndexError"
                /\ min_heap' = mins
                /\ max_heap' = maxs
                /\ UNCHANGED <<idx, aroon_ups, aroon_dns>>
           ELSE /\ aroon_ups' = Put(aroon_ups, idx, AroonValue(period, idx, HeapTop(maxs)[2]))
                /\ aroon_dns' = Put(aroon_dns, idx, AroonValue(period, idx, HeapTop(mins)[2]))
                /\ min_heap' = HeapPush(mins, <<At(lows, idx), idx>>)
                /\ max_heap' = HeapPush(maxs, <<FNeg(At(highs, idx)), idx>>)
                /\ idx' = idx + 1
                /\ pc' = pc
    /\ UNCHANGED <<frame, period, tr, atr, stVars, rsiVars>>

\* The loop is exhausted: the two columns are merged.
Aroon_return ==
    /\ pc = "aroon_loop"
    /\ idx >= Len(highs)
    /\ pc' = "aroon_done"
    /\ UNCHANGED <<frame, period, idx, tr, atr, stVars, rsiVars, aroonVars>>

----------------------------------------------------------------------------
\* The series container and _add_result_safely.  A frame handed to the merge is
\* [has_key, keys, cols]: whether it carries the tick column, its tick keys row
\* by row, and its other columns in order, each [name, cells].  Column names are
\* tuples.  Tick keys are distinct within a frame.

NoFrame == [has_key |-> TRUE, keys |-> <<>>, cols |-> <<>>]

\* The names of the columns cols.
ColNames(cols) == {cols[i].name : i \in DOMAIN cols}

\* drop_cols: the columns of the frame, the tick column aside, that the
\* container holds already.
DropColsOf(cols, d) == ColNames(d.cols) \cap ColNames(cols)

\* A drop that removes only the first colliding column.
DropCols_FirstOnly(cols, names) ==
    LET hit == {i \in DOMAIN cols : cols[i].name \in names}
    IN  IF hit = {} THEN cols
        ELSE LET f == CHOOSE i \in hit : \A j \in hit : i <= j
             IN  SubSeq(cols, 1, f - 1) \o SubSeq(cols, f + 1, Len(cols))

\* self._df.drop(columns=drop_cols)
DropCols(cols, names) ==
    LET keep(i) == cols[i].name \notin names
        RECURSIVE Sel(_)
        Sel(i) == IF i > Len(cols) THEN <<>>
                  ELSE (IF keep(i) THEN <<cols[i]>> ELSE <<>>) \o Sel(i + 1)
    IN  Sel(1)

\* The cells taken row by row in the frame's own order, whatever the tick keys.
LeftCells_ByPosition(tk, d, c) ==
    Column([r \in 1..Len(tk) |-> IF r <= Len(c.cells) THEN c.cells[r] ELSE NaN])

\* The cells of column c of frame d for the rows tk of the container: the cell
\* of the row of d with the same tick key, NaN where d has none.
LeftCells(tk, d, c) ==
    Column([r \in 1..Len(tk) |->
               IF \E j \in DOMAIN d.keys : d.keys[j] = tk[r]
               THEN c.cells[CHOOSE j \in DOMAIN d.keys : d.keys[j] = tk[r]]
               ELSE NaN])

\* self._df.merge(df, how='left', on=self.tick_col): the rows of the container
\* in their order, the frame's columns appended after the container's.
LeftMerge(tk, cols, d) ==
    cols \o Column([i \in 1..Len(d.cols) |->
                       [name |-> d.cols[i].name,
                        cells |-> LeftCells(tk, d, d.cols[i])]])

\* _BaseIndicator._add_result_safely(df) with df = d.  The merge raises
\* KeyError when d has no tick column, after the drop has been applied.
AddResultSafely(d) ==
    /\ pc \in {"idle", "merged"}
    /\ df' = d
    /\ LET dropped == DropCols(columns, DropColsOf(columns, d))
       IN  IF d.has_key
           THEN /\ columns' = LeftMerge(ticks, dropped, d)
                /\ pc' = "merged"
           ELSE /\ columns' = dropped
                /\ pc' = "KeyError"
    /\ UNCHANGED <<highs, lows, closes, ticks, period, idx, tr, atr, stVars,
                   rsiVars, aroonVars, extVars>>

\* The tick keys of a frame: no key twice, in any order.
TickKeys == 1..MaxTick

KeySeqs ==
    {ks \in UNION {[1..n -> TickKeys] : n \in 0..MaxTick} :
        \A i, j \in DOMAIN ks : ks[i] = ks[j] => i = j}

\* The tick keys of a container: sorted ascending, at least one row.
SortedKeySeqs ==
    {ks \in KeySeqs : Len(ks) >= 1 /\ \A i, j \in DOMAIN ks : i < j => ks[i] < ks[j]}

DerivedNames == {<<"A">>, <<"B">>}

NameSeqs ==
    {ns \in UNION {[1..n -> DerivedNames] : n \in 1..2} :
        \A i, j \in DOMAIN ns : ns[i] = ns[j] => i = j}

Versions == 0..MaxVersion

\* The cell of the row with tick key k in version v of a derived column: a
\* value that tells the version and the row it was computed for.
CellOf(v, k) == FromInt(v * (MaxTick + 1) + k)

FrameOf(h, ks, ns, vs) ==
    [has_key |-> h, keys |-> ks,
     cols |-> Column([i \in 1..Len(ns) |->
                 [name |-> ns[i],
                  cells |-> Column([j \in 1..Len(ks) |-> CellOf(vs[i], ks[j])])]])]

\* The frames handed to the merge: with the tick column, any keys in any order;
\* without it, rows numbered from 1.
DerivedFrames ==
    {FrameOf(TRUE, ks, ns, vs) :
        ks \in KeySeqs, ns \in NameSeqs, vs \in [1..2 -> Versions]}
    \cup
    {FrameOf(FALSE, ks, ns, vs) :
        ks \in {[j \in 1..n |-> j] : n \in 0..MaxTick},
        ns \in NameSeqs, vs \in [1..2 -> Versions]}

----------------------------------------------------------------------------
\* IndMACD.

\* Col.Ind.MACD.EMA12.name and Col.Ind.MACD.EMA26.name carry no parameter;
\* Col.Ind.MACD.MACD(...) and Col.Ind.MACD.Signal(...) carry the three windows.
ColEMA12 == <<"MACD.EMA12">>

ColEMA26 == <<"MACD.EMA26">>

ColMACD(short, long, signal) == <<"MACD.MACD", short, long, signal>>

ColSignal(short, long, signal) == <<"MACD.Signal", short, long, signal>>

\* x.ewm(span=span, adjust=False).mean(): alpha = 2 / (span + 1)
EwmSpan(x, span) == EwmMean(x, Num(2, span + 1))

\* The frame IndMACD._calc hands to the merge.
MACDFrame(short, long, signal) ==
    LET ewm_short == EwmSpan(closes, short)
        ewm_long  == EwmSpan(closes, long)
        macd      == Column([t \in 1..Len(closes) |-> FSub(ewm_short[t], ewm_long[t])])
        sig       == EwmSpan(macd, signal)
    IN  [has_key |-> TRUE, keys |-> ticks,
         cols |-> << [name |-> ColEMA12, cells |-> ewm_short],
                     [name |-> ColEMA26, cells |-> ewm_long],
                     [name |-> ColMACD(short, long, signal), cells |-> macd],
                     [name |-> ColSignal(short, long, signal), cells |-> sig] >>]

\* IndMACD(df, tick_col, short, long, signal) on a container of fewer than
\* MaxColumns derived columns.
IndMACD_calc(short, long, signal) ==
    /\ Len(columns) < MaxColumns
    /\ AddResultSafely(MACDFrame(short, long, signal))

----------------------------------------------------------------------------
\* JobSetup, the run log and JobGenerator.  A time is a number of 20-minute
\* units and a date is TicksPerDay of them.  A task is [name, backup_freq,
\* conds, args]: backup_freq is a BackupFrequency member [name, value], conds
\* the results task.backup_cond.check gives at run_datetime, in order, and args
\* the keyword arguments task.get_args gives.  A DownloadSwitch value is the
\* set of its bits.  A run-log row is the job's metainfo with its run_status;
\* run_intraday_version, which no query reads, is left out of the rows.

TicksPerDay == 2

\* JobStatus
JobStatus_INIT == 0

JobStatus_SUCCESS == 1

JobStatus_SUCCESS_PULL == 2

JobStatus_FAIL == 3

JobStatus == {JobStatus_INIT, JobStatus_SUCCESS, JobStatus_SUCCESS_PULL, JobStatus_FAIL}

\* buffer_time: dt.timedelta = dt.timedelta(minutes=20)
BufferTime == 1

\* datetime.date()
DateOf(t) == t \div TicksPerDay

Times == 0..MaxTime

TickerNames == {"A"}

TickerTypes == {"STOCK", "ETF"}

TaskNames == {"t1", "t2"}

AD_HOC == [name |-> "AD_HOC", value |-> 0]

\* The members of BackupFrequency.
BackupFrequency == {AD_HOC} \cup {[name |-> "EVERY", value |-> v] : v \in 1..MaxFreq}

\* The lists of results of a task's backup conditions.
CondResults == UNION {[1..n -> BOOLEAN] : n \in 0..MaxConds}

\* Optional[...] values of the history arguments.
OptArgs == {None} \cup (1..MaxArg)

DownloadSwitch == SUBSET {"HISTORY", "INFO"}

\* The keyword arguments of JobSetup that describe the download.
HistoryArgs == [download_switch : DownloadSwitch, period : OptArgs,
                start : OptArgs, end : OptArgs]

\* JobSetup.__post_init__ accepting every combination.
PostInitOk_NoCheck(a) == TRUE

\* JobSetup.__post_init__: TRUE when no assertion fails.
PostInitOk(a) ==
    IF "HISTORY" \in a.download_switch
    THEN IF a.period = None
         THEN a.end # None /\ a.start # None
         ELSE a.end = None /\ a.start = None
    ELSE TRUE

\* JobSetup(**args)
JobSetup(ticker_name, ticker_type, run_dt, intraday_ver, task, a) ==
    [ticker_name |-> ticker_name, ticker_type |-> ticker_type,
     run_datetime |-> run_dt, run_intraday_version |-> intraday_ver,
     task |-> task, download_switch |-> a.download_switch,
     period |-> a.period, start |-> a.start, end |-> a.end]

NoArgs == [download_switch |-> {}, period |-> None, start |-> None, end |-> None]

NoTask == [name |-> "", backup_freq |-> [name |-> "", value |-> 0], conds |-> <<>>,
           args |-> NoArgs]

\* No job yet.
NoJob == JobSetup("", "", 0, 0, NoTask, NoArgs)

\* JobSetup.metainfo with the row's run_status.
LogRow(task_name, ticker_name, ticker_type, run_status, run_dt) ==
    [task_name |-> task_name, ticker_name |-> ticker_name,
     ticker_type |-> ticker_type, run_status |-> run_status,
     run_datetime |-> run_dt, run_date |-> DateOf(run_dt)]

\* self.fetcher.db.add_job_status(job, status)
AddJobStatus(log, j, status) ==
    Append(log, LogRow(j.task.name, j.ticker_name, j.ticker_type, status,
                       j.run_datetime))

\* The intraday version counting the rows of every status.
IntradayVersion_AnyStatus(log, task_name, ticker_name, ticker_type, run_date) ==
    1 + Cardinality({i \in DOMAIN log :
                        /\ log[i].task_name = task_name
                        /\ log[i].run_date = run_date
                        /\ log[i].ticker_name = ticker_name
                        /\ log[i].ticker_type = ticker_type})

\* SELECT COUNT(1) ... run_status = SUCCESS AND run_date = ... ; intraday_ver
\* = df.iloc[0, 0] + 1
IntradayVersion(log, task_name, ticker_name, ticker_type, run_date) ==
    1 + Cardinality({i \in DOMAIN log :
                        /\ log[i].task_name = task_name
                        /\ log[i].run_status = JobStatus_SUCCESS
                        /\ log[i].run_date = run_date
                        /\ log[i].ticker_name = ticker_name
                        /\ log[i].ticker_type = ticker_type})

\* SELECT MAX(run_datetime) ... run_status = SUCCESS: None when no row matches.
LastSuccess(log, task_name, ticker_name, ticker_type) ==
    LET rows == {i \in DOMAIN log :
                    /\ log[i].task_name = task_name
                    /\ log[i].ticker_name = ticker_name
                    /\ log[i].ticker_type = ticker_type
                    /\ log[i].run_status = JobStatus_SUCCESS}
    IN  IF rows = {} THEN None
        ELSE log[CHOOSE i \in rows :
                    \A k \in rows : log[k].run_datetime <= log[i].run_datetime].run_datetime

\* _has_enough_gap_since_last_run with >= in place of >.
HasEnoughGap_NonStrict(log, run_dt, ticker_name, ticker_type, task) ==
    LET last == LastSuccess(log, task.name, ticker_name, ticker_type)
    IN  IF last = None THEN TRUE
        ELSE (run_dt - last) >= (task.backup_freq.value - BufferTime)

\* JobGenerator._has_enough_gap_since_last_run
HasEnoughGap(log, run_dt, ticker_name, ticker_type, task) ==
    LET last == LastSuccess(log, task.name, ticker_name, ticker_type)
    IN  IF last = None THEN TRUE
        ELSE (run_dt - last) > (task.backup_freq.value - BufferTime)

\* all([...]) of a list of booleans
All(bools) == \A i \in DOMAIN bools : bools[i]

\* JobGenerator._is_valid_task
IsValidTask(log, run_dt, ticker_name, ticker_type, task) ==
    IF task.backup_freq.name = AD_HOC.name THEN TRUE
    ELSE All(<<HasEnoughGap(log, run_dt, ticker_name, ticker_type, task)>>
             \o task.conds)

\* One call of _is_valid_task on a generator over the current run log.
IsValidTask_call(ticker_name, ticker_type, task) ==
    /\ pc = "idle"
    /\ checked' = [ticker_name |-> ticker_name, ticker_type |-> ticker_type,
                   task |-> task,
                   ret |-> IsValidTask(run_log, run_datetime, ticker_name,
                                       ticker_type, task)]
    /\ pc' = "checked"
    /\ UNCHANGED <<indVars, plotVars, dumpVars, run_log, run_datetime, ticker_configs, _jobs, _created,
                   _new_jobs, cfg_i, task_i, job, calls>>

\* JobSetup.get_history_args, without the interval and the extra options.
GetHistoryArgs(j) ==
    IF j.period # None
    THEN [k \in {"period"} |-> j.period]
    ELSE [k \in {"period", "start", "end"} |->
             IF k = "period" THEN None ELSE IF k = "start" THEN j.start ELSE j.end]

\* The task of a JobSetup constructed on its own.
LoneTask(a) == [name |-> "t1", backup_freq |-> AD_HOC, conds |-> <<>>, args |-> a]

\* One construction JobSetup(...) with the given download arguments; the
\* fields are assigned before __post_init__ runs.
JobSetup_init(a) ==
    /\ pc = "idle"
    /\ job' = JobSetup("A", "STOCK", run_datetime, 1, LoneTask(a), a)
    /\ pc' = IF PostInitOk(a) THEN "constructed" ELSE "AssertionError"
    /\ UNCHANGED <<indVars, plotVars, dumpVars, run_log, run_datetime, ticker_configs, _jobs, _created,
                   _new_jobs, cfg_i, task_i, calls, checked>>

\* create_jobs is called.
CreateJobs_call ==
    /\ pc \in {"idle", "jobs_done"}
    /\ calls < MaxCalls
    /\ calls' = calls + 1
    /\ cfg_i' = 1
    /\ task_i' = 1
    /\ _new_jobs' = <<>>
    /\ pc' = "jobs_loop"
    /\ UNCHANGED <<indVars, plotVars, dumpVars, run_log, run_datetime, ticker_configs, _jobs, _created,
                   job, checked>>

\* The jobs property is read: create_jobs runs when nothing was created yet,
\* otherwise the list is returned as it is.
Jobs_get ==
    /\ pc \in {"idle", "jobs_done"}
    /\ IF ~_created
       THEN /\ calls < MaxCalls
            /\ calls' = calls + 1
            /\ cfg_i' = 1
            /\ task_i' = 1
            /\ _new_jobs' = <<>>
            /\ pc' = "jobs_loop"
       ELSE UNCHANGED <<calls, cfg_i, task_i, _new_jobs, pc>>
    /\ UNCHANGED <<indVars, plotVars, dumpVars, run_log, run_datetime, ticker_configs, _jobs, _created,
                   job, checked>>

\* The task the list comprehension of create_jobs is at.
CurConfig == ticker_configs[cfg_i]

CurTask == CurConfig.tasks[task_i]

AtTask ==
    /\ pc = "jobs_loop"
    /\ cfg_i <= Len(ticker_configs)
    /\ task_i <= Len(CurConfig.tasks)

\* The comprehension's condition is false: the task gives no job.
Task_skip ==
    /\ AtTask
    /\ ~IsValidTask(run_log, run_datetime, CurConfig.ticker_name,
                    CurConfig.ticker_type, CurTask)
    /\ task_i' = task_i + 1
    /\ UNCHANGED <<indVars, plotVars, dumpVars, pc, run_log, run_datetime, ticker_configs, _jobs,
                   _created, _new_jobs, cfg_i, job, calls, checked>>

\* The comprehension's condition is true: _gen_job up to add_job_status.
GenJob_record ==
    /\ AtTask
    /\ IsValidTask(run_log, run_datetime, CurConfig.ticker_name,
                   CurConfig.ticker_type, CurTask)
    /\ LET ver == IntradayVersion(run_log, CurTask.name, CurConfig.ticker_name,
                                  CurConfig.ticker_type, DateOf(run_datetime))
           j   == JobSetup(CurConfig.ticker_name, CurConfig.ticker_type,
                           run_datetime, ver, CurTask, CurTask.args)
       IN  /\ job' = j
           /\ IF PostInitOk(CurTask.args)
              THEN /\ run_log' = AddJobStatus(run_log, j, JobStatus_INIT)
                   /\ pc' = "gen_return"
              ELSE /\ run_log' = run_log
                   /\ pc' = "AssertionError"
    /\ UNCHANGED <<indVars, plotVars, dumpVars, run_datetime, ticker_configs, _jobs, _created,
                   _new_jobs, cfg_i, task_i, calls, checked>>

\* _gen_job returns the job to the comprehension.
GenJob_return ==
    /\ pc = "gen_return"
    /\ _new_jobs' = Append(_new_jobs, job)
    /\ task_i' = task_i + 1
    /\ pc' = "jobs_loop"
    /\ UNCHANGED <<indVars, plotVars, dumpVars, run_log, run_datetime, ticker_configs, _jobs, _created,
                   cfg_i, job, calls, checked>>

\* The tasks of one ticker config are exhausted: self._jobs += _new_jobs.
Config_done ==
    /\ pc = "jobs_loop"
    /\ cfg_i <= Len(ticker_configs)
    /\ task_i > Len(CurConfig.tasks)
    /\ _jobs' = _jobs \o _new_jobs
    /\ _new_jobs' = <<>>
    /\ cfg_i' = cfg_i + 1
    /\ task_i' = 1
    /\ UNCHANGED <<indVars, plotVars, dumpVars, pc, run_log, run_datetime, ticker_configs, _created,
                   job, calls, checked>>

\* The ticker configs are exhausted: create_jobs returns self._jobs.
CreateJobs_return ==
    /\ pc = "jobs_loop"
    /\ cfg_i > Len(ticker_configs)
    /\ _created' = TRUE
    /\ pc' = "jobs_done"
    /\ UNCHANGED <<indVars, plotVars, dumpVars, run_log, run_datetime, ticker_configs, _jobs,
                   _new_jobs, cfg_i, task_i, job, calls, checked>>

\* The run logs of at most MaxLog rows with the given statuses and times.
LogRows(statuses, times) ==
    {LogRow(n, k, y, st, t) : n \in TaskNames, k \in TickerNames,
                              y \in TickerTypes, st \in statuses, t \in times}

RunLogs(rows, maxlen) == UNION {[1..n -> rows] : n \in 0..maxlen}

\* Every task over the modelled frequencies, condition results and arguments.
Tasks ==
    [name : TaskNames, backup_freq : BackupFrequency, conds : CondResults,
     args : HistoryArgs]

\* A download of the history by period, and one that names no range at all.
PeriodArgs ==
    [download_switch |-> {"HISTORY", "INFO"}, period |-> 1, start |-> None,
     end |-> None]

NoRangeArgs ==
    [download_switch |-> {"HISTORY", "INFO"}, period |-> None, start |-> None,
     end |-> None]

\* The tasks of the configs create_jobs is run on.
JobTasks ==
    {t \in Tasks : /\ t.backup_freq.value \in {AD_HOC.value, MaxFreq}
                   /\ t.conds = <<>>
                   /\ t.args \in {PeriodArgs, NoRangeArgs}}

UserConfig(ticker_name, ticker_type, tasks) ==
    [ticker_name |-> ticker_name, ticker_type |-> ticker_type, tasks |-> tasks]

\* The lists of ticker configs holding at most MaxTasks tasks in all: one
\* config of up to MaxTasks tasks, or two configs of one task each.
ConfigLists ==
    {<<UserConfig(k, y, ts)>> :
        k \in TickerNames, y \in TickerTypes,
        ts \in UNION {[1..n -> JobTasks] : n \in 1..MaxTasks}}
    \cup
    {<<UserConfig(k1, y1, <<t1>>), UserConfig(k2, y2, <<t2>>)>> :
        k1 \in TickerNames, y1 \in TickerTypes, t1 \in JobTasks,
        k2 \in TickerNames, y2 \in TickerTypes, t2 \in JobTasks}

----------------------------------------------------------------------------
\* DataContainer.dump.  A data kind of the container is None or the number of
\* (DataFrame, table) pairs its _prepare_df_for_db gives; for the history, 0
\* stands for a HistoryData built from an empty or None history_raw.

\* for data in [self.history, self.info, self.news, self.holder,
\* self.financial, self.rating, self.option]
KindOrder == <<"history", "info", "news", "holder", "financial", "rating", "option">>

\* The pairs a data object can give: three for a history, one for an info,
\* none or four for the options, and one per non-empty frame for the others.
PairCounts(kind) ==
    IF kind = "history" THEN {0, 3}
    ELSE IF kind = "info" THEN {1}
    ELSE IF kind = "option" THEN {0, 4}
    ELSE 0..MaxPairs

Containers == {c \in [{KindOrder[i] : i \in DOMAIN KindOrder} -> {None} \cup (0..4)] :
                  \A i \in DOMAIN KindOrder :
                      c[KindOrder[i]] \in {None} \cup PairCounts(KindOrder[i])}

\* HistoryData._prepare_df_for_db reads self.history, which __post_init__
\* sets only for a non-empty history_raw.
PrepareRaises(kind, data) == kind = "history" /\ data = 0

\* dump is called on the container.
Dump_call ==
    /\ pc = "idle"
    /\ dump_i' = 1
    /\ pair_i' = 0
    /\ pc' = "dump_loop"
    /\ UNCHANGED <<indVars, plotVars, jobVars, container, npairs, attempted, failed>>

AtKind == pc = "dump_loop" /\ dump_i <= Len(KindOrder)

\* if data is not None: false
Data_skip ==
    /\ AtKind
    /\ pair_i = 0
    /\ container[KindOrder[dump_i]] = None
    /\ dump_i' = dump_i + 1
    /\ UNCHANGED <<indVars, plotVars, jobVars, pc, container, pair_i, npairs, attempted, failed>>

\* data.dump(self.job) up to the loop of _dump_to_db: _prepare_df_for_db.
Data_prepare ==
    /\ AtKind
    /\ pair_i = 0
    /\ container[KindOrder[dump_i]] # None
    /\ IF PrepareRaises(KindOrder[dump_i], container[KindOrder[dump_i]])
       THEN /\ pc' = "AttributeError"
            /\ UNCHANGED <<npairs, pair_i>>
       ELSE /\ npairs' = container[KindOrder[dump_i]]
            /\ pair_i' = 1
            /\ pc' = pc
    /\ UNCHANGED <<indVars, plotVars, jobVars, container, dump_i, attempted, failed>>

\* _dump_df_to_db without the try: a database error leaves dump.
DumpDf_NoCatch(raises) ==
    /\ AtKind
    /\ pair_i >= 1
    /\ pair_i <= npairs
    /\ attempted' = Append(attempted, <<KindOrder[dump_i], pair_i>>)
    /\ IF raises
       THEN /\ Cardinality(failed) < MaxErrors
            /\ failed' = failed \cup {Len(attempted) + 1}
            /\ pc' = "DatabaseError"
            /\ pair_i' = pair_i
       ELSE /\ failed' = failed
            /\ pc' = pc
            /\ pair_i' = pair_i + 1
    /\ UNCHANGED <<indVars, plotVars, jobVars, container, dump_i, npairs>>

\* One iteration of the loop of _dump_to_db: _dump_df_to_db writes the pair,
\* and an exception of the write is caught and logged.
DumpDf(raises) ==
    /\ AtKind
    /\ pair_i >= 1
    /\ pair_i <= npairs
    /\ attempted' = Append(attempted, <<KindOrder[dump_i], pair_i>>)
    /\ IF raises
       THEN /\ Cardinality(failed) < MaxErrors
            /\ failed' = failed \cup {Len(attempted) + 1}
       ELSE failed' = failed
    /\ pair_i' = pair_i + 1
    /\ UNCHANGED <<indVars, plotVars, jobVars, pc, container, dump_i, npairs>>

\* The pairs of the data object are exhausted.
Data_done ==
    /\ AtKind
    /\ pair_i >= 1
    /\ pair_i > npairs
    /\ dump_i' = dump_i + 1
    /\ pair_i' = 0
    /\ UNCHANGED <<indVars, plotVars, jobVars, pc, container, npairs, attempted, failed>>

\* The data kinds are exhausted: dump returns.
Dump_return ==
    /\ pc = "dump_loop"
    /\ dump_i > Len(KindOrder)
    /\ pc' = "dump_done"
    /\ UNCHANGED <<indVars, plotVars, jobVars, dumpVars>>

----------------------------------------------------------------------------
\* OHLCMpfPlotter: the panel numbers.

\* for panel in range(0, 33)
PanelRangeEnd == 33

\* "At most 32 panels are supported"
PanelLimit == 32

\* OHLCMpfPlotter.panel_num
PanelNum == 1 + Len(_taken_panel_nums) + (IF volume THEN 1 ELSE 0)

\* The panels the loop of get_new_panel_num skips.
SkippedPanels ==
    {main_panel} \cup {_taken_panel_nums[i] : i \in DOMAIN _taken_panel_nums}
    \cup (IF volume THEN {volume_panel} ELSE {})

\* OHLCMpfPlotter.get_new_panel_num: the first panel of the range that is not
\* skipped is taken and returned; ValueError when the range has none.
GetNewPanelNum ==
    /\ pc \in {"idle", "panel", "reset", "ValueError", "PlotError"}
    /\ LET free == (0..(PanelRangeEnd - 1)) \ SkippedPanels
       IN  IF free = {}
           THEN /\ pc' = "ValueError"
                /\ UNCHANGED _taken_panel_nums
           ELSE /\ _taken_panel_nums' =
                      Append(_taken_panel_nums,
                             CHOOSE p \in free : \A q \in free : p <= q)
                /\ pc' = "panel"
    /\ UNCHANGED <<indVars, jobVars, dumpVars, main_panel, volume_panel, volume>>

\* OHLCMpfPlotter.reset
Reset ==
    /\ pc \in {"idle", "panel", "reset", "ValueError", "PlotError"}
    /\ _taken_panel_nums' = <<>>
    /\ pc' = "reset"
    /\ UNCHANGED <<indVars, jobVars, dumpVars, main_panel, volume_panel, volume>>

\* OHLCMpfPlotter.plot: mpf.plot draws the figure, then reset; when mpf.plot
\* raises, the reset is not reached.
Plot(raises) ==
    /\ pc \in {"idle", "panel", "reset", "ValueError", "PlotError"}
    /\ IF raises
       THEN /\ pc' = "PlotError"
            /\ UNCHANGED _taken_panel_nums
       ELSE /\ _taken_panel_nums' = <<>>
            /\ pc' = "reset"
    /\ UNCHANGED <<indVars, jobVars, dumpVars, main_panel, volume_panel, volume>>

----------------------------------------------------------------------------
\* Specifications.

\* No indicator has been constructed.
InitIndIdle ==
    /\ pc = "idle"
    /\ period = 0 /\ multi_up = 0 /\ multi_dn = 0 /\ idx = 0
    /\ tr = <<>> /\ atr = <<>>
    /\ base_ups = <<>> /\ base_dns = <<>>
    /\ final_ups = <<>> /\ final_dns = <<>>
    /\ modes = <<>> /\ supertrend = <<>>
    /\ rsi_type = "" /\ ewm_ups = <<>> /\ ewm_dns = <<>>
    /\ rs = <<>> /\ rsi = <<>>
    /\ min_heap = {} /\ max_heap = {}
    /\ aroon_ups = <<>> /\ aroon_dns = <<>>
    /\ columns = <<>>
    /\ df = NoFrame

\* A JobGenerator after __init__, run at time MaxTime.
InitGenerator ==
    /\ run_datetime = MaxTime
    /\ _jobs = <<>>
    /\ _created = FALSE
    /\ _new_jobs = <<>>
    /\ cfg_i = 0
    /\ task_i = 0
    /\ job = NoJob
    /\ calls = 0
    /\ checked = [ticker_name |-> "", ticker_type |-> "", task |-> NoTask, ret |-> FALSE]

\* No job generator at work: no ticker config, an empty run log.
InitJobsIdle ==
    /\ run_log = <<>>
    /\ ticker_configs = <<>>
    /\ InitGenerator

\* No dump under way.
InitDumpIdle ==
    /\ dump_i = 0
    /\ pair_i = 0
    /\ npairs = 0
    /\ attempted = <<>>
    /\ failed = {}

\* An OHLCMpfPlotter constructed with its defaults.
InitPlotIdle ==
    /\ main_panel = 0
    /\ volume_panel = 1
    /\ volume = FALSE
    /\ _taken_panel_nums = <<>>

\* No indicator has been constructed on the frame.
InitIdle ==
    /\ InitIndIdle
    /\ InitJobsIdle
    /\ container = [k \in {} |-> None]
    /\ InitDumpIdle
    /\ InitPlotIdle

\* No series at all.
InitNoSeries ==
    /\ highs = <<>> /\ lows = <<>> /\ closes = <<>>
    /\ ticks = <<>>
    /\ InitIndIdle

\* A frame of NRows rows with Low <= Close <= High.
Init ==
    /\ \E s \in [1..NRows -> OHLCRow] :
          /\ highs = [t \in 1..NRows |-> FromInt(s[t].h)]
          /\ lows = [t \in 1..NRows |-> FromInt(s[t].l)]
          /\ closes = [t \in 1..NRows |-> FromInt(s[t].c)]
    /\ ticks = [t \in 1..NRows |-> t]
    /\ InitIdle

\* The RSI family reads the Close column only: frames of NRows flat bars
\* (High = Low = Close).
InitCloses ==
    /\ \E s \in [1..NRows -> Prices] :
          /\ highs = [t \in 1..NRows |-> FromInt(s[t])]
          /\ lows = [t \in 1..NRows |-> FromInt(s[t])]
          /\ closes = [t \in 1..NRows |-> FromInt(s[t])]
    /\ ticks = [t \in 1..NRows |-> t]
    /\ InitIdle

\* Aroon reads the High and Low columns only: frames of NRows bars with
\* Low <= High that close at their low.
InitHighLow ==
    /\ \E s \in [1..NRows -> {r \in OHLCRow : r.c = r.l}] :
          /\ highs = [t \in 1..NRows |-> FromInt(s[t].h)]
          /\ lows = [t \in 1..NRows |-> FromInt(s[t].l)]
          /\ closes = [t \in 1..NRows |-> FromInt(s[t].c)]
    /\ ticks = [t \in 1..NRows |-> t]
    /\ InitIdle

NextSupertrend ==
    \/ \E p \in Periods, m \in Multipliers, mdn \in {None} \cup Multipliers :
           Supertrend_seed(p, m, mdn)
    \/ Supertrend_step
    \/ Supertrend_return

SpecSupertrend == Init /\ [][NextSupertrend]_vars

NextRSI ==
    \/ \E p \in Periods : IndCutlerRSI_calc(p)
    \/ \E p \in Periods : IndWilderRSI_calc(p)
    \/ \E p \in Periods : IndEmaRSI_calc(p)
    \/ \E p \in Periods : IndAvgTrueRange_init(p)

SpecRSI == InitCloses /\ [][NextRSI]_vars

NextAroon ==
    \/ \E p \in Periods : Aroon_fill(p)
    \/ Aroon_step
    \/ Aroon_return

SpecAroon == InitHighLow /\ [][NextAroon]_vars

\* IndAvgTrueRange on frames of bars that close at their low: each of the three
\* terms of the True Range can be the largest.
NextATR == \E p \in Periods : IndAvgTrueRange_init(p)

SpecATR == InitHighLow /\ [][NextATR]_vars

\* A container of up to MaxTick rows whose price columns are flat at 0 (the merge
\* does not read them).
InitMerge ==
    /\ \E tk \in SortedKeySeqs :
          /\ ticks = tk
          /\ highs = [t \in 1..Len(tk) |-> Zero]
          /\ lows = [t \in 1..Len(tk) |-> Zero]
          /\ closes = [t \in 1..Len(tk) |-> Zero]
    /\ InitIdle

\* Any sequence of merges into the container.
NextMerge == \E d \in DerivedFrames : AddResultSafely(d)

SpecMerge == InitMerge /\ [][NextMerge]_vars

\* IndMACD computed again and again on the container with any windows.
NextMACD == \E short \in Periods, long \in Periods, signal \in Periods :
                IndMACD_calc(short, long, signal)

SpecMACD == InitCloses /\ [][NextMACD]_vars

\* Frames of fewer than NRows flat bars, the empty frame included.
InitShort ==
    /\ \E n \in 0..(NRows - 1) : \E s \in [1..n -> Prices] :
          /\ highs = [t \in 1..n |-> FromInt(s[t])]
          /\ lows = [t \in 1..n |-> FromInt(s[t])]
          /\ closes = [t \in 1..n |-> FromInt(s[t])]
          /\ ticks = [t \in 1..n |-> t]
    /\ InitIdle

\* Any integer period, non-positive ones included.
AnyPeriods == (-MaxPeriod)..MaxPeriod

\* The period-based indicators constructed with any period on short frames.
NextConstruct ==
    \/ \E p \in AnyPeriods : IndWilderRSI_calc(p)
    \/ \E p \in AnyPeriods : IndAvgTrueRange_init(p)
    \/ \E p \in AnyPeriods, m \in Multipliers : Supertrend_seed(p, m, None)
    \/ Supertrend_step
    \/ Supertrend_return
    \/ \E p \in AnyPeriods : Aroon_fill(p)
    \/ Aroon_step
    \/ Aroon_return

SpecConstruct == InitShort /\ [][NextConstruct]_vars

\* _is_valid_task on run logs of SUCCESS and FAIL rows of any time.
InitValid ==
    /\ InitNoSeries
    /\ InitPlotIdle
    /\ container = [k \in {} |-> None]
    /\ InitDumpIdle
    /\ InitGenerator
    /\ ticker_configs = <<>>
    /\ run_log \in RunLogs(LogRows({JobStatus_SUCCESS, JobStatus_FAIL}, Times), MaxLog)

NextValid ==
    \E k \in TickerNames, y \in TickerTypes,
       t \in {t \in Tasks : t.args = PeriodArgs} :
        IsValidTask_call(k, y, t)

SpecValid == InitValid /\ [][NextValid]_vars

\* create_jobs and the jobs property on run logs of one earlier row, of any
\* status but INIT, written at time 0 or at the time of the run.
InitJobs ==
    /\ InitNoSeries
    /\ InitPlotIdle
    /\ container = [k \in {} |-> None]
    /\ InitDumpIdle
    /\ InitGenerator
    /\ ticker_configs \in ConfigLists
    /\ run_log \in RunLogs(LogRows(JobStatus \ {JobStatus_INIT}, {0, MaxTime}), 1)

NextJobs ==
    \/ CreateJobs_call
    \/ Jobs_get
    \/ Task_skip
    \/ GenJob_record
    \/ GenJob_return
    \/ Config_done
    \/ CreateJobs_return

SpecJobs == InitJobs /\ [][NextJobs]_vars

\* The constructions of a JobSetup.
InitJobSetup ==
    /\ InitNoSeries
    /\ InitPlotIdle
    /\ container = [k \in {} |-> None]
    /\ InitDumpIdle
    /\ InitJobsIdle

NextJobSetup == \E a \in HistoryArgs : JobSetup_init(a)

SpecJobSetup == InitJobSetup /\ [][NextJobSetup]_vars

\* dump on every container of the modelled data kinds.
InitDump ==
    /\ InitNoSeries
    /\ InitPlotIdle
    /\ InitJobsIdle
    /\ InitDumpIdle
    /\ container \in Containers

NextDump ==
    \/ Dump_call
    \/ Data_skip
    \/ Data_prepare
    \/ \E raises \in BOOLEAN : DumpDf(raises)
    \/ Data_done
    \/ Dump_return

SpecDump == InitDump /\ [][NextDump]_vars

\* An OHLCMpfPlotter after __init__, for every main panel and volume panel up
\* to MaxPanelArg, with and without the volume.
InitPlot ==
    /\ InitNoSeries
    /\ InitJobsIdle
    /\ container = [k \in {} |-> None]
    /\ InitDumpIdle
    /\ main_panel \in 0..MaxPanelArg
    /\ volume_panel \in 0..MaxPanelArg
    /\ volume \in BOOLEAN
    /\ _taken_panel_nums = <<>>

NextPlot ==
    \/ GetNewPanelNum
    \/ Reset
    \/ \E raises \in BOOLEAN : Plot(raises)

SpecPlot == InitPlot /\ [][NextPlot]_vars

----------------------------------------------------------------------------
\* Properties of the Supertrend state machine.

STStarted == pc \in {"st_loop", "st_done"}

\* The rows the loop has written so far (every row after the seed row).
STRows == IF STStarted THEN (period + 1)..(idx - 1) ELSE {}

BreachDn(t) == FLt(At(closes, t), At(final_dns, t))

BreachUp(t) == FGt(At(closes, t), At(final_ups, t))

\* C1: at every row t > period the mode is Resistance-Active when Close[t] <
\* finalDn[t], otherwise Support-Active when Close[t] > finalUp[t], otherwise the
\* mode of row t-1; so the mode changes only at a breach row, and a row where both
\* breaches hold is Resistance-Active.
C1_ModeTransition ==
    \A t \in STRows :
        /\ BreachDn(t) => At(modes, t) = ModeResistance
        /\ (~BreachDn(t) /\ BreachUp(t)) => At(modes, t) = ModeSupport
        /\ (~BreachDn(t) /\ ~BreachUp(t)) => At(modes, t) = At(modes, t - 1)
        /\ At(modes, t) # At(modes, t - 1) => (BreachDn(t) \/ BreachUp(t))

\* A finished run with a row where both breaches hold (it is Resistance-Active)
\* and a later row that flips back to Support-Active.
C1_Witness ==
    /\ pc = "st_done"
    /\ \E t \in STRows : \E u \in STRows :
          /\ t < u
          /\ BreachDn(t) /\ BreachUp(t)
          /\ At(modes, t - 1) = ModeSupport /\ At(modes, t) = ModeResistance
          /\ At(modes, u - 1) = ModeResistance /\ At(modes, u) = ModeSupport

\* C2: at every row t > period, finalUp[t] is baseUp[t] when Close[t-1] >
\* finalUp[t-1] and the smaller of baseUp[t] and finalUp[t-1] otherwise, finalDn[t]
\* is baseDn[t] when Close[t-1] < finalDn[t-1] and the larger of baseDn[t] and
\* finalDn[t-1] otherwise; finalUp rises only after a close above it and finalDn
\* falls only after a close below it.
C2_BoundaryRecurrence ==
    \A t \in STRows :
        LET fu == At(final_ups, t)   fuPrev == At(final_ups, t - 1)
            fd == At(final_dns, t)   fdPrev == At(final_dns, t - 1)
            bu == At(base_ups, t)    bd == At(base_dns, t)
        IN  /\ BreachUp(t - 1) => fu = bu
            /\ ~BreachUp(t - 1) =>
                   /\ fu \in {bu, fuPrev} /\ FLe(fu, bu) /\ FLe(fu, fuPrev)
            /\ BreachDn(t - 1) => fd = bd
            /\ ~BreachDn(t - 1) =>
                   /\ fd \in {bd, fdPrev} /\ FLe(bd, fd) /\ FLe(fdPrev, fd)
            /\ FLt(fuPrev, fu) => BreachUp(t - 1)
            /\ FLt(fd, fdPrev) => BreachDn(t - 1)

\* A run where the upper boundary was held below a higher raw boundary at one
\* row and reset upward after a breach at another, and likewise the lower one.
C2_Witness ==
    /\ STStarted
    /\ \E t \in STRows :
          ~BreachUp(t - 1) /\ FLt(At(final_ups, t), At(base_ups, t))
    /\ \E t \in STRows :
          BreachUp(t - 1) /\ FLt(At(final_ups, t - 1), At(final_ups, t))
    /\ \E t \in STRows :
          ~BreachDn(t - 1) /\ FLt(At(base_dns, t), At(final_dns, t))
    /\ \E t \in STRows :
          BreachDn(t - 1) /\ FLt(At(final_dns, t), At(final_dns, t - 1))

\* C3: at the seed row finalUp = baseUp, finalDn = baseDn, the mode is
\* Support-Active and the published value is finalUp; at every later row the
\* published value is finalDn in Support-Active mode and finalUp in
\* Resistance-Active mode.
C3_SeedAndPublished ==
    STStarted =>
        /\ At(final_ups, period) = At(base_ups, period)
        /\ At(final_dns, period) = At(base_dns, period)
        /\ At(modes, period) = ModeSupport
        /\ At(supertrend, period) = At(final_ups, period)
        /\ \A t \in STRows :
              /\ At(modes, t) = ModeSupport => At(supertrend, t) = At(final_dns, t)
              /\ At(modes, t) = ModeResistance => At(supertrend, t) = At(final_ups, t)

\* A finished run whose seed boundaries differ, with a Support-Active row and a
\* Resistance-Active row after the seed whose two final boundaries differ.
C3_Witness ==
    /\ pc = "st_done"
    /\ At(base_ups, period) # At(base_dns, period)
    /\ \E t \in STRows :
          At(modes, t) = ModeSupport /\ At(final_ups, t) # At(final_dns, t)
    /\ \E t \in STRows :
          At(modes, t) = ModeResistance /\ At(final_ups, t) # At(final_dns, t)

\* C4: from one row to the next inside a run of Support-Active rows (the seed
\* row included) the published value does not decrease, and inside a run of
\* Resistance-Active rows it does not increase.
C4_RunMonotone ==
    \A t \in STRows :
        /\ (At(modes, t - 1) = ModeSupport /\ At(modes, t) = ModeSupport)
               => FLe(At(supertrend, t - 1), At(supertrend, t))
        /\ (At(modes, t - 1) = ModeResistance /\ At(modes, t) = ModeResistance)
               => FLe(At(supertrend, t), At(supertrend, t - 1))

\* C5: the mode and the published value are undefined at every row before the
\* seed row, and the mode is 0 or 1 at every row from the seed row on.
C5_ModeDomain ==
    STStarted =>
        /\ \A i \in 0..(period - 1) : IsNaN(At(modes, i)) /\ IsNaN(At(supertrend, i))
        /\ \A i \in period..(idx - 1) : At(modes, i) \in {ModeSupport, ModeResistance}
        /\ pc = "st_done" => idx = Len(closes)

\* A finished run with undefined rows before the seed row (period 2), a
\* Support-Active seed row and a Resistance-Active row after it.
C5_Witness ==
    /\ pc = "st_done"
    /\ period >= 2
    /\ \E t \in STRows : At(modes, t) = ModeResistance

\* baseDn[t] <= baseUp[t] at every row from the seed row on (the rows before
\* it carry no boundary).
BaseOrdered ==
    \A i \in period..(Len(closes) - 1) : FLe(At(base_dns, i), At(base_ups, i))

\* C21: at every row t > period the close is on the trailing-stop side of the
\* published value (Support-Active: Close[t] >= published[t]; Resistance-Active:
\* Close[t] <= published[t]) and the final boundaries do not cross
\* (finalDn[t] <= finalUp[t]), given baseDn <= baseUp at every row.
C21_StopSideAndNoCrossing ==
    (STStarted /\ BaseOrdered) =>
        \A t \in STRows :
            /\ At(modes, t) = ModeSupport
                   => FLe(At(supertrend, t), At(closes, t))
            /\ At(modes, t) = ModeResistance
                   => FLe(At(closes, t), At(supertrend, t))
            /\ FLe(At(final_dns, t), At(final_ups, t))

----------------------------------------------------------------------------
\* Properties of the Wilder seeding, the warm-up rows and the RSI range.

RowsOf(col) == 0..(Len(col) - 1)

\* The gain and loss inputs of the RSI smoothing.
GainInput == Ups(CloseReturnGL(closes))

LossInput == Dns(CloseReturnGL(closes))

\* The arithmetic mean of rows 0..n-1 of x, their sum divided by n.  Where a row
\* is undefined the mean is either undefined or taken with that row adding
\* nothing to the sum: both readings are accepted.
MeansOfFirst(x, n) ==
    {FDiv(SumSkipNa(SubSeq(x, 1, n)), FromInt(n))}
        \cup (IF CountValid(SubSeq(x, 1, n)) < n THEN {NaN} ELSE {})

UndefinedBefore(col, k) == \A i \in RowsOf(col) : i < k => IsNaN(At(col, i))

DefinedFrom(col, k) == \A i \in RowsOf(col) : i >= k => At(col, i).k = "num"

WilderDone == pc = "rsi_done" /\ rsi_type = "Wilder"

EmaDone == pc = "rsi_done" /\ rsi_type = "Ema"

CutlerDone == pc = "rsi_done" /\ rsi_type = "Cutler"

ATRDone == pc = "atr_done"

\* C8: every Wilder-smoothed output (average gain and average loss of
\* IndWilderRSI, ATR of IndAvgTrueRange) is undefined before index n, and at
\* index n it is the arithmetic mean of exactly the first n input values (rows
\* 0..n-1): their sum divided by n.
C8_WilderSeedIsMeanOfFirstN ==
    /\ WilderDone =>
          /\ UndefinedBefore(ewm_ups, period) /\ UndefinedBefore(ewm_dns, period)
          /\ At(ewm_ups, period) \in MeansOfFirst(GainInput, period)
          /\ At(ewm_dns, period) \in MeansOfFirst(LossInput, period)
    /\ ATRDone =>
          /\ UndefinedBefore(atr, period)
          /\ At(atr, period) \in MeansOfFirst(tr, period)

FirstDefined ==
    IF WilderDone THEN (IF period = 1 THEN 2 ELSE period)
    ELSE IF CutlerDone THEN period
    ELSE IF EmaDone THEN 1
    ELSE period

C10_RSIRange ==
    pc = "rsi_done" =>
        \A i \in RowsOf(rsi) :
            IsNaN(At(rsi, i)) \/
            (At(rsi, i).k = "num" /\ FLe(Zero, At(rsi, i)) /\ FLe(At(rsi, i), Hundred))

\* An RSI column with a value strictly inside (0,100), and with the value 100 on a
\* row whose average loss is 0 (RS infinite).
C10_Witness ==
    /\ pc = "rsi_done"
    /\ \E i \in RowsOf(rsi) : FLt(Zero, At(rsi, i)) /\ FLt(At(rsi, i), Hundred)
    /\ \E i \in RowsOf(rsi) : At(rs, i) = Inf(1) /\ At(rsi, i) = Hundred

\* C11: on every row where the average gain and the average loss are defined
\* and the average loss is 0, the published RSI is exactly 100, whatever the
\* average gain (0 included), for the three RSI variants.
C11_ZeroLossSaturates ==
    pc = "rsi_done" =>
        \A i \in RowsOf(rsi) :
            (At(ewm_ups, i).k = "num" /\ At(ewm_dns, i) = Zero)
                => At(rsi, i) = Hundred

\* The True Range of row t >= 1 from the row's High and Low and the previous
\* row's Close.
TrueRangeAt(t) ==
    LET hl == FSub(At(highs, t), At(lows, t))
        hc == FAbs(FSub(At(highs, t), At(closes, t - 1)))
        lc == FAbs(FSub(At(lows, t), At(closes, t - 1)))
    IN  PyMax(PyMax(hl, hc), lc)

\* C12: the True Range is max(High[t]-Low[t], |High[t]-Close[t-1]|,
\* |Low[t]-Close[t-1]|) at every row t >= 1 and undefined at row 0.
C12_TrueRangeRows ==
    ATRDone =>
        /\ IsNaN(At(tr, 0))
        /\ \A t \in RowsOf(tr) : t >= 1 => At(tr, t) = TrueRangeAt(t)

\* C13: for every row t > period, ATR[t] = ATR[t-1]*(period-1)/period +
\* TrueRange[t]/period, with TrueRange the published True Range column.
C13_ATRRecurrence ==
    ATRDone =>
        \A t \in RowsOf(atr) :
            t > period =>
                At(atr, t) = FAdd(FMul(At(atr, t - 1), Num(period - 1, period)),
                                  FDiv(At(tr, t), FromInt(period)))

\* An ATR of period 2 with a row after the seed whose True Range differs from
\* the previous ATR, so that the average moves without reaching the True Range.
C13_Witness ==
    /\ ATRDone
    /\ period = 2
    /\ \E t \in RowsOf(atr) :
          /\ t > period
          /\ At(atr, t) # At(atr, t - 1)
          /\ At(atr, t) # At(tr, t)

----------------------------------------------------------------------------
\* Properties of the Aroon computation.

AroonStarted == pc \in {"aroon_loop", "aroon_done"}

\* The rows the Aroon loop has written so far.
AroonRows == IF AroonStarted THEN period..(idx - 1) ELSE {}

\* The trailing window of the last `period` rows that includes row t.
WindowIncl(t) == (t - period + 1)..t

\* C6: at every row t >= period, AroonUp[t] and AroonDn[t] are the values a
\* brute-force scan gives: (period - (t - j)) / period * 100 for a row j holding
\* the maximum High, respectively the minimum Low, of the `period` rows ending
\* with row t itself.
C6_MatchesBruteForce ==
    \A t \in AroonRows :
        /\ \E j \in WindowIncl(t) :
              /\ \A k \in WindowIncl(t) : FLe(At(highs, k), At(highs, j))
              /\ At(aroon_ups, t) = AroonValue(period, t, j)
        /\ \E j \in WindowIncl(t) :
              /\ \A k \in WindowIncl(t) : FLe(At(lows, j), At(lows, k))
              /\ At(aroon_dns, t) = AroonValue(period, t, j)

\* C7: AroonUp and AroonDn are undefined at every row t < period and lie in
\* [0,100] at every row t >= period.
C7_AroonRange ==
    AroonStarted =>
        /\ \A i \in 0..(period - 1) : IsNaN(At(aroon_ups, i)) /\ IsNaN(At(aroon_dns, i))
        /\ \A t \in AroonRows :
              /\ At(aroon_ups, t).k = "num" /\ At(aroon_dns, t).k = "num"
              /\ FLe(Zero, At(aroon_ups, t)) /\ FLe(At(aroon_ups, t), Hundred)
              /\ FLe(Zero, At(aroon_dns, t)) /\ FLe(At(aroon_dns, t), Hundred)
        /\ pc = "aroon_done" => idx = Len(highs)

\* A finished run where the heaps held entries older than the window: both
\* columns take the value 0 at one row and a positive value at another.
C7_Witness ==
    /\ pc = "aroon_done"
    /\ Cardinality(max_heap) > period
    /\ \E t \in AroonRows : At(aroon_ups, t) = Zero /\ FLt(Zero, At(aroon_dns, t))
    /\ \E t \in AroonRows : At(aroon_dns, t) = Zero /\ FLt(Zero, At(aroon_ups, t))

\* The loop is about to read the extrema of row idx.
AroonReading == pc = "aroon_loop" /\ idx < Len(highs)

\* The heap top is a row of the trailing window of row t: not older than
\* t - period, and pushed before row t is read.
TopInWindow(heap, t) ==
    /\ heap # {}
    /\ HeapTop(heap)[2] >= t - period
    /\ HeapTop(heap)[2] < t

\* C22: each time the extrema of a row t are read (period >= 1), after the lazy
\* clean both heaps are non-empty and the row at the top of each heap is not
\* older than t - period; the read never fails on an empty heap.
C22_TopInsideWindow ==
    /\ AroonReading =>
          /\ TopInWindow(CleanHeap(min_heap, idx - period), idx)
          /\ TopInWindow(CleanHeap(max_heap, idx - period), idx)
    /\ pc # "IndexError"

\* A read where, after the clean, the minimum heap still stores a row older
\* than the window below its top, and an earlier read has already taken place.
C22_Witness ==
    /\ AroonReading
    /\ idx > period
    /\ \E e \in CleanHeap(min_heap, idx - period) : e[2] < idx - period
    /\ HeapTop(CleanHeap(min_heap, idx - period))[2] >= idx - period

\* The rows of W holding the maximum of column col over W.
MaxRows(col, W) == {j \in W : \A k \in W : FLe(At(col, k), At(col, j))}

\* The rows of W holding the minimum of column col over W.
MinRows(col, W) == {j \in W : \A k \in W : FLe(At(col, j), At(col, k))}

Oldest(rows) == CHOOSE j \in rows : \A k \in rows : j <= k

\* The rows that are inside the window when row t is read (not older than
\* t - period), without and with row t itself.
WindowRead(t) == {(t - period)..(t - 1), (t - period)..t}

\* C23: at every row t >= period, when several rows inside the window share the
\* maximum High (the minimum Low), AroonUp[t] (AroonDn[t]) measures the distance
\* to the oldest of them.
C23_TieTakesOldest ==
    \A t \in AroonRows : \A W \in WindowRead(t) :
        /\ Cardinality(MaxRows(highs, W)) >= 2
              => At(aroon_ups, t) = AroonValue(period, t, Oldest(MaxRows(highs, W)))
        /\ Cardinality(MinRows(lows, W)) >= 2
              => At(aroon_dns, t) = AroonValue(period, t, Oldest(MinRows(lows, W)))

\* A finished run with a row whose window holds the maximum High twice and a
\* row whose window holds the minimum Low twice, next to a row that is not
\* extreme.
C23_Witness ==
    /\ pc = "aroon_done"
    /\ period >= 2
    /\ \E t \in AroonRows :
          LET W == (t - period)..(t - 1)
          IN  /\ Cardinality(MaxRows(highs, W)) >= 2
              /\ Cardinality(MinRows(lows, W)) >= 2
    /\ \E t \in AroonRows :
          LET W == (t - period)..t
          IN  /\ Cardinality(MaxRows(highs, W)) = 2
              /\ At(aroon_ups, t) = Zero

----------------------------------------------------------------------------
\* Properties of the container merge.

\* Column c of frame d brought to the rows of the container: the cell of the
\* frame's row with the same tick key, undefined where the frame has none.
AlignedCells(d, c) ==
    [r \in 1..Len(ticks) |->
        IF \E j \in DOMAIN d.keys : d.keys[j] = ticks[r]
        THEN c.cells[CHOOSE j \in DOMAIN d.keys : d.keys[j] = ticks[r]]
        ELSE NaN]

\* The container cols holds every column of frame d, each once, with the
\* frame's values.
HoldsFrame(cols, d) ==
    \A i \in DOMAIN d.cols :
        /\ Cardinality({j \in DOMAIN cols : cols[j].name = d.cols[i].name}) = 1
        /\ \E j \in DOMAIN cols :
              /\ cols[j].name = d.cols[i].name
              /\ cols[j].cells = AlignedCells(d, d.cols[i])

\* The container after holds every column of the container before, unchanged.
HoldsAll(before, after) ==
    \A i \in DOMAIN before : \E j \in DOMAIN after : after[j] = before[i]

\* C14: a merge that returns leaves the tick keys and the row count as they
\* were, leaves the container with exactly one column per name, the columns of
\* the merged frame holding that frame's values (last write wins), and leaves
\* every column the frame does not name unchanged.
C14_MergeKeepsRowsLastWriteWins ==
    [][pc' = "merged" =>
          /\ ticks' = ticks
          /\ \A i \in DOMAIN columns' : Len(columns'[i].cells) = Len(ticks)
          /\ \A i, j \in DOMAIN columns' :
                columns'[i].name = columns'[j].name => i = j
          /\ HoldsFrame(columns', df')
          /\ \A i \in DOMAIN columns :
                columns[i].name \notin ColNames(df'.cols)
                    => \E j \in DOMAIN columns' : columns'[j] = columns[i]
          /\ ColNames(columns') = ColNames(columns) \cup ColNames(df'.cols)
    ]_vars

\* A two-row container after the merge of a one-column frame that knows only
\* the second row, next to an older column of another name: the new column is
\* the last one, undefined at the first row.
C14_Witness ==
    /\ pc = "merged"
    /\ Len(ticks) = 2
    /\ Len(columns) = 2
    /\ Len(df.cols) = 1
    /\ df.keys = <<ticks[2]>>
    /\ columns[2].name = df.cols[1].name
    /\ IsNaN(columns[2].cells[1]) /\ columns[2].cells[2] = df.cols[1].cells[1]
    /\ \A r \in 1..2 : ~IsNaN(columns[1].cells[r])

\* C15: merging the frame of the previous merge once more leaves the container
\* as it is: same column names, order, values and rows.
C15_MergeIdempotent ==
    [][(pc = "merged" /\ pc' = "merged" /\ df' = df)
          => (columns' = columns /\ ticks' = ticks)]_vars

\* A container that results from the merge of a frame of two columns and on
\* which that frame can be merged again, both of its names colliding.
C15_Witness ==
    /\ pc = "merged"
    /\ Len(df.cols) = 2
    /\ Len(columns) = 2
    /\ DropColsOf(columns, df) = ColNames(df.cols)
    /\ columns = LeftMerge(ticks, DropCols(columns, DropColsOf(columns, df)), df)
    /\ ENABLED AddResultSafely(df)

\* C16: a merge of a frame that carries a tick key the container does not hold
\* ends in a ConfigurationError.
C16_ForeignKeyRejected ==
    (/\ pc \in {"merged", "KeyError"}
     /\ df.has_key
     /\ \E j \in DOMAIN df.keys : \A r \in DOMAIN ticks : df.keys[j] # ticks[r])
        => pc = "ConfigurationError"

C18_ParameterizationsCoexist ==
    \A i \in DOMAIN columns :
        (Len(columns[i].name) = 4 /\ columns[i].name[1] = "MACD.MACD") =>
            \A j \in DOMAIN columns :
                /\ columns[j].name = ColEMA12
                      => columns[j].cells = EwmSpan(closes, columns[i].name[2])
                /\ columns[j].name = ColEMA26
                      => columns[j].cells = EwmSpan(closes, columns[i].name[3])

----------------------------------------------------------------------------
\* Properties of the construction of period-based indicators.

Constructed == pc # "idle"

Faults == {"IndexError", "ZeroDivisionError", "ValueError", "KeyError"}

Finished == pc \in {"rsi_done", "atr_done", "st_done", "aroon_done"}

AllUndefined(col) == \A i \in RowsOf(col) : IsNaN(At(col, i))

\* C19: on a series with fewer rows than the period the construction of
\* IndWilderRSI, IndAvgTrueRange, IndSupertrend or IndAroon raises nothing and
\* ends with derived columns that are undefined at every row.
C19_ShortSeriesAllUndefined ==
    (Constructed /\ period > Len(closes)) =>
        /\ pc \notin Faults
        /\ Finished =>
              /\ AllUndefined(ewm_ups) /\ AllUndefined(ewm_dns) /\ AllUndefined(rsi)
              /\ AllUndefined(atr)
              /\ AllUndefined(supertrend) /\ AllUndefined(modes)
              /\ AllUndefined(aroon_ups) /\ AllUndefined(aroon_dns)

\* C20: the construction of a period-based indicator with a period <= 0 ends in
\* a ConfigurationError, before any row is computed.
C20_NonPositivePeriodRejected ==
    (Constructed /\ period <= 0) => pc = "ConfigurationError"

----------------------------------------------------------------------------
\* Properties of JobSetup and JobGenerator.

\* The run_datetime values of the SUCCESS rows of the run log for a task name
\* and a ticker.
SuccessTimes(task_name, ticker_name, ticker_type) ==
    {run_log[i].run_datetime : i \in {i \in DOMAIN run_log :
        /\ run_log[i].run_status = JobStatus_SUCCESS
        /\ run_log[i].task_name = task_name
        /\ run_log[i].ticker_name = ticker_name
        /\ run_log[i].ticker_type = ticker_type}}

\* C24: _is_valid_task returns true for every AD_HOC task; for any other task
\* it returns true exactly when (the run log holds no SUCCESS run of the task
\* for the ticker, or run_datetime minus the latest such run is strictly
\* greater than backup_freq minus the 20-minute buffer) and every backup
\* condition is true.
C24_IsValidTask ==
    pc = "checked" =>
        LET t     == checked.task
            S     == SuccessTimes(t.name, checked.ticker_name, checked.ticker_type)
            gap   == \/ S = {}
                     \/ \E last \in S :
                           /\ \A x \in S : x <= last
                           /\ run_datetime - last > t.backup_freq.value - BufferTime
            conds == \A i \in DOMAIN t.conds : t.conds[i] = TRUE
        IN  IF t.backup_freq = AD_HOC
            THEN checked.ret = TRUE
            ELSE checked.ret = (gap /\ conds)

\* A task that is not AD_HOC found valid with two true conditions, after two
\* SUCCESS runs of different times the later of which lies one unit further
\* back than backup_freq minus the buffer.
C24_Witness ==
    /\ pc = "checked"
    /\ checked.task.backup_freq # AD_HOC
    /\ checked.ret = TRUE
    /\ Len(checked.task.conds) = 2
    /\ LET S == SuccessTimes(checked.task.name, checked.ticker_name,
                             checked.ticker_type)
       IN  /\ Cardinality(S) = 2
           /\ \E last \in S :
                 /\ \A x \in S : x <= last
                 /\ run_datetime - last
                        = checked.task.backup_freq.value - BufferTime + 1

\* The jobs _gen_job has returned so far: the finished configs' jobs and the
\* jobs of the config at work.
Returned == _jobs \o _new_jobs

\* The rows of the run log that record job j with status INIT.
InitRowsOf(j) ==
    {i \in DOMAIN run_log :
        run_log[i] = LogRow(j.task.name, j.ticker_name, j.ticker_type,
                            JobStatus_INIT, j.run_datetime)}

\* The SUCCESS rows of the run log for the task name, ticker name, ticker type
\* and run date of job j.
SuccessRowsOf(j) ==
    {i \in DOMAIN run_log :
        /\ run_log[i].run_status = JobStatus_SUCCESS
        /\ run_log[i].task_name = j.task.name
        /\ run_log[i].ticker_name = j.ticker_name
        /\ run_log[i].ticker_type = j.ticker_type
        /\ run_log[i].run_date = DateOf(j.run_datetime)}

\* C25: every job _gen_job returns carries run_intraday_version = 1 + the
\* number of SUCCESS run-log rows of the same task name, ticker name, ticker
\* type and run date, and is in the run log with status INIT before it is
\* returned: there are at least as many INIT rows of a job as the job has
\* been returned, and one more while it is about to be returned.
C25_VersionAndInitRow ==
    /\ \A n \in DOMAIN Returned :
          LET j == Returned[n]
          IN  /\ j.run_intraday_version = 1 + Cardinality(SuccessRowsOf(j))
              /\ Cardinality(InitRowsOf(j))
                    >= Cardinality({k \in DOMAIN Returned : Returned[k] = j})
    /\ pc = "gen_return" =>
          /\ job.run_intraday_version = 1 + Cardinality(SuccessRowsOf(job))
          /\ Cardinality(InitRowsOf(job))
                > Cardinality({k \in DOMAIN Returned : Returned[k] = job})

\* A finished create_jobs that returned a job of version 2 (a SUCCESS row of
\* the run date exists for it) next to a job of version 1.
C25_Witness ==
    /\ pc = "jobs_done"
    /\ \E n \in DOMAIN _jobs :
          /\ _jobs[n].run_intraday_version = 2
          /\ SuccessRowsOf(_jobs[n]) # {}
    /\ \E n \in DOMAIN _jobs : _jobs[n].run_intraday_version = 1

\* The (ticker config, task) pairs of ticker_configs with the ticker and the
\* task name of job j.
PairsOf(j) ==
    {p \in {<<c, t>> : c \in DOMAIN ticker_configs, t \in 1..MaxTasks} :
        /\ p[2] <= Len(ticker_configs[p[1]].tasks)
        /\ ticker_configs[p[1]].ticker_name = j.ticker_name
        /\ ticker_configs[p[1]].ticker_type = j.ticker_type
        /\ ticker_configs[p[1]].tasks[p[2]].name = j.task.name}

\* C26: the job list holds at most one job per (ticker config, task) pair, and
\* no pair is registered with INIT status more than once: the jobs, and the
\* INIT rows, of a ticker and task name are at most as many as the pairs with
\* that ticker and task name.
C26_OneJobPerPair ==
    \A n \in DOMAIN _jobs :
        LET j == _jobs[n]
        IN  /\ Cardinality({k \in DOMAIN _jobs :
                                /\ _jobs[k].ticker_name = j.ticker_name
                                /\ _jobs[k].ticker_type = j.ticker_type
                                /\ _jobs[k].task.name = j.task.name})
                  <= Cardinality(PairsOf(j))
            /\ Cardinality(InitRowsOf(j)) <= Cardinality(PairsOf(j))

\* The history range of job j is given by the period alone.
ByPeriod(j) == j.period # None /\ j.start = None /\ j.end = None

\* The history range of job j is given by start and end alone.
ByStartEnd(j) == j.period = None /\ j.start # None /\ j.end # None

\* C27: a constructed JobSetup with the HISTORY bit gives its history range in
\* exactly one way (period alone, or start and end alone), and so do its
\* history arguments; every other combination fails the assertion; without the
\* HISTORY bit every combination is accepted.
C27_HistoryRangeOneWay ==
    /\ (pc = "constructed" /\ "HISTORY" \in job.download_switch) =>
          /\ ByPeriod(job) \/ ByStartEnd(job)
          /\ ~(ByPeriod(job) /\ ByStartEnd(job))
          /\ LET args == GetHistoryArgs(job)
             IN  IF ByPeriod(job)
                 THEN DOMAIN args = {"period"} /\ args["period"] # None
                 ELSE /\ args["period"] = None
                      /\ args["start"] # None
                      /\ args["end"] # None
    /\ pc = "AssertionError" =>
          /\ "HISTORY" \in job.download_switch
          /\ ~ByPeriod(job)
          /\ ~ByStartEnd(job)
    /\ (pc \in {"constructed", "AssertionError"}
          /\ "HISTORY" \notin job.download_switch) => pc = "constructed"

\* A JobSetup with the HISTORY bit constructed from a start and an end.
C27_Witness ==
    /\ pc = "constructed"
    /\ "HISTORY" \in job.download_switch
    /\ ByStartEnd(job)
    /\ job.start # job.end

----------------------------------------------------------------------------
\* Properties of DataContainer.dump.

\* The pairs of the first n data kinds of the container, in dump order.
RECURSIVE PairsUpTo(_)
PairsUpTo(n) ==
    IF n = 0 THEN <<>>
    ELSE LET data == container[KindOrder[n]]
         IN  PairsUpTo(n - 1)
             \o (IF data = None THEN <<>>
                 ELSE [i \in 1..data |-> <<KindOrder[n], i>>])

\* C28: a database error of one write never leaves dump, and the writes go on
\* after it: the attempts made so far are always the pairs of the non-None
\* kinds in the fixed order, up to the pair dump is at, whether or not earlier
\* writes failed, and a dump that returns has attempted every pair.
C28_DumpGoesOnAfterError ==
    /\ pc # "DatabaseError"
    /\ pc \in {"dump_loop", "dump_done"} =>
          /\ Len(attempted) <= Len(PairsUpTo(Len(KindOrder)))
          /\ attempted = SubSeq(PairsUpTo(Len(KindOrder)), 1, Len(attempted))
          /\ (AtKind /\ pair_i >= 1) =>
                Len(attempted) = Len(PairsUpTo(dump_i - 1)) + pair_i - 1
    /\ pc = "dump_done" => attempted = PairsUpTo(Len(KindOrder))

\* A dump that returned after the first write of the history failed, with the
\* other two history pairs and pairs of later kinds attempted after it.
C28_Witness ==
    /\ pc = "dump_done"
    /\ failed = {1}
    /\ Len(attempted) >= 5
    /\ attempted[1][1] = "history"
    /\ attempted[3][1] = "history"
    /\ attempted[Len(attempted)][1] = "option"

\* C29: dump on a container whose HistoryData was built from an empty
\* history_raw does not raise.
C29_EmptyHistoryDumps ==
    container["history"] = 0 => pc # "AttributeError"

----------------------------------------------------------------------------
\* Properties of the OHLCMpfPlotter panel numbers.

\* C30: the number of panels in use never exceeds 32, no panel number is
\* handed out twice between two resets, none equals the main panel or the
\* active volume panel, and a request is refused with ValueError only when 32
\* panels are in use.
C30_AtMost32Panels ==
    /\ PanelNum <= PanelLimit
    /\ \A i, k \in DOMAIN _taken_panel_nums :
          i # k => _taken_panel_nums[i] # _taken_panel_nums[k]
    /\ \A i \in DOMAIN _taken_panel_nums :
          /\ _taken_panel_nums[i] # main_panel
          /\ volume => _taken_panel_nums[i] # volume_panel
    /\ pc = "ValueError" => PanelNum = PanelLimit

====
